---- MODULE Spec2Model ----
(***************************************************************************)
(* Model of repo_reassignment.py and repo_validation.py.                   *)
(*                                                                         *)
(* A run of repo_reassignment.py loads the item sheet and the category     *)
(* sheet, compares the two totals, calls assign_items_to_categories        *)
(* (a binary program handed to PuLP/CBC), writes the result to a JSON      *)
(* file and upserts one row per (category, cusip) into t_RepoReassignment. *)
(* repo_validation.py then reads the JSON file and the category sheet.     *)
(*                                                                         *)
(* Conventions.  A category's Title is the number of its row in the        *)
(* category sheet (titles are unique), an item's CUSIP is the number of    *)
(* its row in the item sheet (cusips are unique).  Market values and       *)
(* balances are integers.  A solver value is kept as 1 or 0, where 0       *)
(* stands for every value that line 73 finds different from 1.             *)
(***************************************************************************)
EXTENDS Integers, Sequences, FiniteSets

\* ---------------------------------------------------------------- bounds
MaxItems == 2

MaxCats == 2

MaxPrice == 2

MaxBalance == 2

\* a missing cell of the category sheet (pandas NaN)
NaN == 0 - 1

VARIABLES
    dfs_items,            \* item sheet: sequence of Market Values, row i has CUSIP i
    dfs_categories,       \* category sheet: row (= Title) -> Current DDA Balance or NaN
    pc,                   \* position of the run
    repo_items,           \* list of [cusip, price]
    categories,           \* titles that survive dropna, in sheet order
    category_limits,      \* title -> balance
    total_market_value,
    total_balance,
    x,                    \* solver values of the decision variables
    status,               \* what model.solve() returned (the code discards it)
    assignment_result,    \* title -> list of items
    stdout,               \* the items printed as 'invalid item:'
    json_file,            \* <<>> while absent, else <<[keys, items]>>, the dumped dict
    result,               \* line 126: title -> list of cusips
    db,                   \* t_RepoReassignment: cusip -> Customer_Names of its rows
    db0,                  \* the table when the run connected
    todo,                 \* the (cat, cusip) pairs the persistence loop has yet to visit
    sheet                 \* repo_reassignment_result.xlsx: <<>> or <<rows>>

vars == <<dfs_items, dfs_categories, pc, repo_items, categories, category_limits,
          total_market_value, total_balance, x, status, assignment_result, stdout,
          json_file, result, db, db0, todo, sheet>>

\* ---------------------------------------------------------------- helpers
Range(s) == {s[k] : k \in 1..Len(s)}

RECURSIVE SumSeq(_)
SumSeq(s) == IF s = <<>> THEN 0 ELSE Head(s) + SumSeq(Tail(s))

\* sum([l[i]['price'] for i in range(len(l))])
Prices(l) == [k \in 1..Len(l) |-> l[k].price]

SumPrices(l) == SumSeq(Prices(l))

\* the rows of the category sheet from row r on, in order, that hold a balance
RECURSIVE RowsFrom(_, _)
RowsFrom(df, r) ==
    IF r > MaxCats THEN <<>>
    ELSE IF df[r] # NaN THEN <<r>> \o RowsFrom(df, r + 1)
    ELSE RowsFrom(df, r + 1)

\* dfs_categories.dropna()['Title'].values
DropNa(df) == RowsFrom(df, 1)

\* ---------------------------------------------------------------- inputs
ItemSheets == UNION {[1..n -> 0..MaxPrice] : n \in 1..MaxItems}

CategorySheets ==
    {df \in [1..MaxCats -> (0..MaxBalance) \cup {NaN}] : \E r \in 1..MaxCats : df[r] # NaN}

NoTable == [c \in 1..(MaxItems + 1) |-> <<>>]

Init ==
    /\ dfs_items \in ItemSheets
    /\ dfs_categories \in CategorySheets
    /\ pc = "start"
    /\ repo_items = <<>>
    /\ categories = <<>>
    /\ category_limits = <<>>
    /\ total_market_value = 0
    /\ total_balance = 0
    /\ x = <<>>
    /\ status = "NotSolved"
    /\ assignment_result = <<>>
    /\ stdout = <<>>
    /\ json_file = <<>>
    /\ result = <<>>
    /\ db = NoTable
    /\ db0 = NoTable
    /\ todo = <<>>
    /\ sheet = <<>>

\* ---------------------------------------------------------------- loading
\* lines 88-112: read both sheets, build repo_items, category_limits and the totals
Load ==
    /\ pc = "start"
    /\ repo_items' = [i \in 1..Len(dfs_items) |-> [cusip |-> i, price |-> dfs_items[i]]]
    /\ categories' = DropNa(dfs_categories)
    /\ category_limits' = [t \in Range(DropNa(dfs_categories)) |-> dfs_categories[t]]
    /\ total_market_value' = SumSeq(dfs_items)
    /\ total_balance' =
          SumSeq([k \in 1..Len(DropNa(dfs_categories)) |->
                     dfs_categories[DropNa(dfs_categories)[k]]])
    /\ pc' = "loaded"
    /\ UNCHANGED <<dfs_items, dfs_categories, x, status, assignment_result, stdout,
                   json_file, result, db, db0, todo, sheet>>

PreconditionFails_le(V, C) == V <= C

PreconditionFails_gt(V, C) == V > C

\* line 116
PreconditionFails(V, C) == V < C

\* lines 116-117: raise SystemError, the run ends
RaiseSystemError ==
    /\ pc = "loaded"
    /\ PreconditionFails(total_market_value, total_balance)
    /\ pc' = "SystemError"
    /\ UNCHANGED <<dfs_items, dfs_categories, repo_items, categories, category_limits,
                   total_market_value, total_balance, x, status, assignment_result,
                   stdout, json_file, result, db, db0, todo, sheet>>

\* ---------------------------------------------------------------- the binary program
\* line 53: the keys of x
XKeys(items, cats) == (1..Len(items)) \X (1..Len(cats))

RECURSIVE SumOver(_, _, _)
\* lpSum(f[k] for k in lo..hi) with f a function
SumOver(f, lo, hi) == IF lo > hi THEN 0 ELSE f[lo] + SumOver(f, lo + 1, hi)

ExactlyOne_ge(xx, i, m) == SumOver([j \in 1..m |-> xx[<<i, j>>]], 1, m) >= 1

ExactlyOne_le(xx, i, m) == SumOver([j \in 1..m |-> xx[<<i, j>>]], 1, m) <= 1

\* line 61: lpSum(x[(i, j)] for j in range(m)) == 1
ExactlyOne(xx, i, m) == SumOver([j \in 1..m |-> xx[<<i, j>>]], 1, m) = 1

Coverage_count(xx, j, items, cats, limits) ==
    SumOver([i \in 1..Len(items) |-> xx[<<i, j>>]], 1, Len(items)) >= limits[cats[j]]

\* line 64: lpSum(items[i]["price"] * x[(i, j)] for i in range(n)) >= category_limits[categories[j]]
Coverage(xx, j, items, cats, limits) ==
    SumOver([i \in 1..Len(items) |-> items[i].price * xx[<<i, j>>]], 1, Len(items))
        >= limits[cats[j]]

\* line 57 (commented out in the source): the objective
Objective(xx, items, cats) ==
    SumOver([i \in 1..Len(items) |->
                SumOver([j \in 1..Len(cats) |-> items[i].price * xx[<<i, j>>]], 1, Len(cats))],
            1, Len(items))

\* lines 60-64: the constraints of the model
Constraints(xx, items, cats, limits) ==
    /\ \A i \in 1..Len(items) : ExactlyOne(xx, i, Len(cats))
    /\ \A j \in 1..Len(cats) : Coverage(xx, j, items, cats, limits)

\* line 53: cat='Binary'
BinaryPoints(items, cats) == [XKeys(items, cats) -> {0, 1}]

FeasiblePoints(items, cats, limits) ==
    {xx \in BinaryPoints(items, cats) : Constraints(xx, items, cats, limits)}

\* line 67: model.solve().  A feasible program yields one of its feasible points
\* (every one of them is optimal); an infeasible one leaves values that satisfy
\* nothing in particular.
SolverOutcomes(items, cats, limits) ==
    LET feasible == FeasiblePoints(items, cats, limits)
    IN  IF feasible # {}
        THEN [status : {"Optimal"}, values : feasible]
        ELSE [status : {"Infeasible"}, values : BinaryPoints(items, cats)]

\* ---------------------------------------------------------------- extraction
RECURSIVE ScanCategories(_, _, _, _, _, _)
\* lines 72-75: for j in range(m): if value(x[(i, j)]) == 1: result[categories[j]].append(items[i])
ScanCategories(res, xx, i, j, items, cats) ==
    IF j > Len(cats) THEN res
    ELSE IF xx[<<i, j>>] = 1
         THEN ScanCategories([res EXCEPT ![cats[j]] = Append(@, items[i])],
                             xx, i, j + 1, items, cats)
         ELSE ScanCategories(res, xx, i, j + 1, items, cats)

RECURSIVE ScanItems(_, _, _, _, _)
\* lines 70-75
ScanItems(res, xx, i, items, cats) ==
    IF i > Len(items) THEN res
    ELSE ScanItems(ScanCategories(res, xx, i, 1, items, cats), xx, i + 1, items, cats)

\* lines 69-78: the returned dict
Extract(xx, items, cats) ==
    ScanItems([t \in Range(cats) |-> <<>>], xx, 1, items, cats)

RECURSIVE InvalidFrom(_, _, _, _)
\* lines 71-77: the items printed as invalid, in order
InvalidFrom(xx, i, items, cats) ==
    IF i > Len(items) THEN <<>>
    ELSE IF \E j \in 1..Len(cats) : xx[<<i, j>>] = 1
         THEN InvalidFrom(xx, i + 1, items, cats)
         ELSE <<items[i]>> \o InvalidFrom(xx, i + 1, items, cats)

\* line 119 with lines 14-78: the precondition passed, the call returns its dict
assign_items_to_categories ==
    /\ pc = "loaded"
    /\ ~PreconditionFails(total_market_value, total_balance)
    /\ \E solved \in SolverOutcomes(repo_items, categories, category_limits) :
          /\ x' = solved.values
          /\ status' = solved.status
    /\ assignment_result' = Extract(x', repo_items, categories)
    /\ stdout' = InvalidFrom(x', 1, repo_items, categories)
    /\ pc' = "returned"
    /\ UNCHANGED <<dfs_items, dfs_categories, repo_items, categories, category_limits,
                   total_market_value, total_balance, json_file, result, db, db0, todo, sheet>>

\* ---------------------------------------------------------------- persistence
\* lines 122-126: dump the dict to the JSON file, then keep only the cusips
WriteFile ==
    /\ pc = "returned"
    /\ json_file' = <<[keys |-> categories, items |-> assignment_result]>>
    /\ result' = [t \in DOMAIN assignment_result |->
                     [k \in 1..Len(assignment_result[t]) |-> assignment_result[t][k].cusip]]
    /\ pc' = "written"
    /\ UNCHANGED <<dfs_items, dfs_categories, repo_items, categories, category_limits,
                   total_market_value, total_balance, x, status, assignment_result,
                   stdout, db, db0, todo, sheet>>

RECURSIVE Pairs(_, _, _)
\* lines 156-157: the (cat, cusip) pairs in the order the two loops visit them
Pairs(res, keys, k) ==
    IF k > Len(keys) THEN <<>>
    ELSE [p \in 1..Len(res[keys[k]]) |-> <<keys[k], res[keys[k]][p]>>]
            \o Pairs(res, keys, k + 1)

\* lines 128-136 and 155: connect and open the cursor
Connect ==
    /\ pc = "written"
    /\ todo' = Pairs(result, categories, 1)
    /\ db0' = db
    /\ pc' = "connected"
    /\ UNCHANGED <<dfs_items, dfs_categories, repo_items, categories, category_limits,
                   total_market_value, total_balance, x, status, assignment_result,
                   stdout, json_file, result, db, sheet>>

\* lines 139-143: SELECT COUNT(*) ... WHERE CUSIP_ID=?
cusip_exist(table, cusip) == Len(table[cusip])

\* lines 145-149: UPDATE ... SET Customer_Name=? WHERE CUSIP_ID=?
cusip_update(table, cat, cusip) ==
    [table EXCEPT ![cusip] = [k \in 1..Len(@) |-> cat]]

\* lines 151-154: INSERT INTO ... (CUSIP_ID, Customer_Name) VALUES (?, ?)
cusip_insert(table, cusip, cat) ==
    [table EXCEPT ![cusip] = Append(@, cat)]

Upsert_insert(table, cat, cusip) == cusip_insert(table, cusip, cat)

\* lines 159-164: one pass of the inner loop
Upsert(table, cat, cusip) ==
    IF cusip_exist(table, cusip) # 0
    THEN cusip_update(table, cat, cusip)
    ELSE cusip_insert(table, cusip, cat)

PersistStep ==
    /\ pc = "connected"
    /\ todo # <<>>
    /\ db' = Upsert(db, Head(todo)[1], Head(todo)[2])
    /\ todo' = Tail(todo)
    /\ UNCHANGED <<dfs_items, dfs_categories, pc, repo_items, categories, category_limits,
                   total_market_value, total_balance, x, status, assignment_result,
                   stdout, json_file, result, db0, sheet>>

\* lines 155 (leaving the with block commits) and 165
Close ==
    /\ pc = "connected"
    /\ todo = <<>>
    /\ pc' = "done"
    /\ UNCHANGED <<dfs_items, dfs_categories, repo_items, categories, category_limits,
                   total_market_value, total_balance, x, status, assignment_result,
                   stdout, json_file, result, db, db0, todo, sheet>>

\* ---------------------------------------------------------------- repo_validation.py
\* line 20: the sheet as read, no dropna; the two new columns have no value yet
ReadSheet(df) ==
    [r \in 1..MaxCats |->
        [Title |-> r, Balance |-> df[r], TotalMarketValue |-> <<>>, IsCorrect |-> <<>>]]

BalanceCovered_lt(balance, total) == balance # NaN /\ balance < total

\* line 25: 'Current DDA Balance' <= category_assignment[cat]; a NaN compares False
BalanceCovered(balance, total) == balance # NaN /\ balance <= total

\* lines 23-25: one pass of the loop, for the category cat of the file
ValidateCategory(rows, file, cat) ==
    [r \in DOMAIN rows |->
        IF rows[r].Title = cat
        THEN [rows[r] EXCEPT
                 !.TotalMarketValue = <<SumPrices(file.items[cat])>>,
                 !.IsCorrect = <<BalanceCovered(rows[r].Balance, SumPrices(file.items[cat]))>>]
        ELSE rows[r]]

RECURSIVE ValidateFrom(_, _, _)
\* lines 22-25
ValidateFrom(rows, file, k) ==
    IF k > Len(file.keys) THEN rows
    ELSE ValidateFrom(ValidateCategory(rows, file, file.keys[k]), file, k + 1)

\* repo_validation.py, run once the reassignment has finished
Validate ==
    /\ pc = "done"
    /\ json_file # <<>>
    /\ sheet' = <<ValidateFrom(ReadSheet(dfs_categories), json_file[1], 1)>>
    /\ pc' = "validated"
    /\ UNCHANGED <<dfs_items, dfs_categories, repo_items, categories, category_limits,
                   total_market_value, total_balance, x, status, assignment_result,
                   stdout, json_file, result, db, db0, todo>>

Next ==
    \/ Load
    \/ RaiseSystemError
    \/ assign_items_to_categories
    \/ WriteFile
    \/ Connect
    \/ PersistStep
    \/ Close
    \/ Validate

Spec == Init /\ [][Next]_vars

\* ---------------------------------------------------------------- the persistence loop alone
\* Customer_Names a row may hold before the run: 0 is a customer that is no
\* title of the sheet, 1 is the first title
InitialRows == {<<>>, <<0>>, <<1>>, <<0, 0>>}

Tables == [1..(MaxItems + 1) -> InitialRows]

KeyLists == {DropNa(df) : df \in CategorySheets}

\* the dicts line 126 can produce: what Extract yields for cusips 1..n
CusipResults(keys) ==
    UNION {{Extract(xx, [i \in 1..n |-> i], keys) :
                xx \in BinaryPoints([i \in 1..n |-> i], keys)} : n \in 1..MaxItems}

\* the run has reached line 128 with some result, the table holds some rows;
\* what the loop does not read is left as at the start
InitDb ==
    /\ dfs_items = <<>>
    /\ dfs_categories = <<>>
    /\ pc = "written"
    /\ repo_items = <<>>
    /\ categories \in KeyLists
    /\ category_limits = <<>>
    /\ total_market_value = 0
    /\ total_balance = 0
    /\ x = <<>>
    /\ status = "NotSolved"
    /\ assignment_result = <<>>
    /\ stdout = <<>>
    /\ json_file = <<>>
    /\ result \in CusipResults(categories)
    /\ db \in Tables
    /\ db0 = db
    /\ todo = <<>>
    /\ sheet = <<>>

NextDb ==
    \/ Connect
    \/ PersistStep
    \/ Close

SpecDb == InitDb /\ [][NextDb]_vars

\* ---------------------------------------------------------------- properties
\* the call at line 119 has returned
Returned == pc \in {"returned", "written", "connected", "done", "validated"}

\* V and C as the two sheets give them
TotalV == SumSeq(dfs_items)

TotalC == SumOver([r \in 1..MaxCats |-> IF dfs_categories[r] = NaN THEN 0 ELSE dfs_categories[r]],
                  1, MaxCats)

\* the places of the dict res that hold e
Places(res, e) == {tk \in (DOMAIN res) \X (1..MaxItems) : tk[2] <= Len(res[tk[1]]) /\ res[tk[1]][tk[2]] = e}

Printed(it) == \E k \in 1..Len(stdout) : stdout[k] = it

\* C1 (partition): when the program handed to the solver is feasible, every
\* input item is at exactly one place of the returned dict, and the dict holds
\* nothing but input items.
C1_Partition ==
    (Returned /\ status = "Optimal") =>
        /\ \A i \in 1..Len(repo_items) : Cardinality(Places(assignment_result, repo_items[i])) = 1
        /\ \A t \in DOMAIN assignment_result :
              \A k \in 1..Len(assignment_result[t]) : assignment_result[t][k] \in Range(repo_items)

C1_Witness ==
    /\ pc = "returned"
    /\ status = "Optimal"
    /\ Len(repo_items) = 2
    /\ Len(categories) = 2
    /\ \A t \in DOMAIN assignment_result : Len(assignment_result[t]) = 1

C3_PreconditionCheck ==
    (pc \notin {"start", "loaded"}) =>
        /\ (TotalV < TotalC) <=> (pc = "SystemError")
        /\ (TotalV < TotalC) <=> (status = "NotSolved")
        /\ (TotalV >= TotalC) <=> Returned

C3_Witness ==
    /\ pc = "returned"
    /\ TotalV = TotalC
    /\ TotalV > 0
    /\ status # "NotSolved"

\* C4 (infeasibility is a distinct outcome): when no assignment satisfies the
\* constraints, the call does not return a dict the way a feasible solve does
\* and the caller does not go on with it.
C4_InfeasibleIsDistinct == (status = "Infeasible") => ~Returned

\* C5 (no silent loss): after the call every input item is either at exactly
\* one place of the dict and not reported, or at no place and reported as
\* unassigned (the report being the 'invalid item:' line).
C5_NoSilentLoss ==
    Returned =>
        \A i \in 1..Len(repo_items) :
            \/ /\ Cardinality(Places(assignment_result, repo_items[i])) = 1
               /\ ~Printed(repo_items[i])
            \/ /\ Cardinality(Places(assignment_result, repo_items[i])) = 0
               /\ Printed(repo_items[i])

\* C6 (no side effect on failure): the JSON file exists or the table differs
\* from what it was only if the precondition passed and the solver found the
\* program feasible.
C6_NoSideEffectOnFailure ==
    (json_file # <<>> \/ db # db0) => (TotalV >= TotalC /\ status = "Optimal")

\* C7 (necessary, not sufficient): whenever the check of line 116 fails (V < C) no binary point satisfies the
\* exactly-one and coverage constraints.  (That V >= C does not suffice is
\* the witness: a run with V >= C that the solver found infeasible.)
C7_PreconditionNecessary ==
    (pc = "loaded" /\ PreconditionFails(total_market_value, total_balance)) =>
        FeasiblePoints(repo_items, categories, category_limits) = {}

C7_Witness ==
    /\ pc = "returned"
    /\ TotalV >= TotalC
    /\ status = "Infeasible"
    /\ FeasiblePoints(repo_items, categories, category_limits) = {}

\* C8 (degenerate objective): every feasible point has objective value V, so
\* the points that maximise the objective are all the feasible points.
C8_DegenerateObjective ==
    (pc = "loaded") =>
        LET feasible == FeasiblePoints(repo_items, categories, category_limits)
        IN  /\ \A xx \in feasible : Objective(xx, repo_items, categories) = TotalV
            /\ {xx \in feasible :
                   \A yy \in feasible :
                       Objective(yy, repo_items, categories) <= Objective(xx, repo_items, categories)}
                  = feasible

C8_Witness ==
    /\ pc = "loaded"
    /\ TotalV > 0
    /\ Cardinality(FeasiblePoints(repo_items, categories, category_limits)) >= 2

\* the cusips of the dict res
CusipsOf(res) == {res[t][k] : <<t, k>> \in {tk \in (DOMAIN res) \X (1..MaxItems) : tk[2] <= Len(res[tk[1]])}}

\* C9 (upsert): from a table with at most one row per cusip and a result that
\* holds each cusip once, the finished loop leaves exactly one row for each
\* cusip of the result, naming its category, and leaves every other cusip's
\* rows as they were.
C9_Upsert ==
    (/\ pc = "done"
     /\ \A c \in DOMAIN db0 : Len(db0[c]) <= 1
     /\ \A c \in CusipsOf(result) : Cardinality(Places(result, c)) = 1) =>
        /\ \A t \in DOMAIN result : \A k \in 1..Len(result[t]) : db[result[t][k]] = <<t>>
        /\ \A c \in (DOMAIN db) \ CusipsOf(result) : db[c] = db0[c]
        /\ \A c \in DOMAIN db : Len(db[c]) >= Len(db0[c])

C9_Witness ==
    /\ pc = "done"
    /\ \A c \in DOMAIN db0 : Len(db0[c]) <= 1
    /\ \A c \in CusipsOf(result) : Cardinality(Places(result, c)) = 1
    /\ \E c \in CusipsOf(result) : Len(db0[c]) = 1 /\ db[c] # db0[c]
    /\ \E c \in CusipsOf(result) : Len(db0[c]) = 0
    /\ \E c \in (DOMAIN db) \ CusipsOf(result) : Len(db0[c]) = 1

\* the 0/1 point the saved file records: 1 where item i is listed under category j
Recorded(file, items, cats) ==
    [ij \in XKeys(items, cats) |->
        IF \E k \in 1..Len(file.items[cats[ij[2]]]) : file.items[cats[ij[2]]][k] = items[ij[1]]
        THEN 1 ELSE 0]

\* C10 (validation): for a title of the saved result the row gets the sum of
\* the prices saved under it and 'Is Correct?' is true exactly when the row's
\* balance is at most that sum, which is the coverage constraint at the saved
\* assignment; a row whose title is not in the result gets no value.
C10_Validation ==
    (pc = "validated") =>
        \A r \in 1..MaxCats :
            IF r \in Range(json_file[1].keys)
            THEN /\ sheet[1][r].TotalMarketValue = <<SumPrices(json_file[1].items[r])>>
                 /\ sheet[1][r].IsCorrect = <<dfs_categories[r] <= SumPrices(json_file[1].items[r])>>
                 /\ \A j \in 1..Len(categories) :
                       categories[j] = r =>
                           (sheet[1][r].IsCorrect[1] <=>
                               Coverage(Recorded(json_file[1], repo_items, categories), j,
                                        repo_items, categories, category_limits))
            ELSE /\ sheet[1][r].TotalMarketValue = <<>>
                 /\ sheet[1][r].IsCorrect = <<>>

C10_Witness ==
    /\ pc = "validated"
    /\ \E r \in 1..MaxCats :
          /\ sheet[1][r].IsCorrect = <<TRUE>>
          /\ dfs_categories[r] > 0
          /\ sheet[1][r].TotalMarketValue = <<dfs_categories[r]>>
    /\ \E r \in 1..MaxCats : dfs_categories[r] = NaN /\ sheet[1][r].IsCorrect = <<>>


====
